---- MODULE Spec2Model ----
(***************************************************************************)
(* Model of backend/src/onnx.rs: the two thread-local model slots          *)
(* (ULTRAFACE, FACEREC), setup(), detect() and embedding().                *)
(*                                                                         *)
(* The two ONNX assets are build-time constants (include_bytes!), so       *)
(* whether each one loads, and what the loaded graph returns for a         *)
(* decodable image, is fixed for the life of the process: these are        *)
(* chosen in Init and never change.  A panic is an outcome of a call       *)
(* (kind "Panic"); the slots keep their values across it.  The             *)
(* ic_cdk::api::print calls are diagnostics and are not modelled.          *)
(***************************************************************************)
EXTENDS Integers, Sequences, FiniteSets, TLC

VARIABLES
    ULTRAFACE,      \* RefCell<Option<Model>>: None, or the load that built it
    FACEREC,        \* RefCell<Option<Model>>: None, or the load that built it
    loads,          \* number of setup() calls made so far
    ultrafaceOnnx,  \* ULTRAFACE_ONNX: "valid" or "malformed"
    facerecOnnx,    \* FACEREC_ONNX: "valid" or "malformed"
    detectorRun,    \* what the detector graph's run() yields for a decodable image
    embedderRun,    \* what the embedder graph's run() yields for a decodable image
    ret             \* the value the last call returned (or its panic)

vars == <<ULTRAFACE, FACEREC, loads, ultrafaceOnnx, facerecOnnx,
          detectorRun, embedderRun, ret>>

----------------------------------------------------------------------------
(* Bounds *)

\* setup() calls in one behaviour
MaxLoads == 2
\* confidences the detector graph returns
MaxCand == 2
\* floats the embedder graph returns
MaxEmb == 1

\* floats in the detector's flat coordinate output: MaxCand groups and a
\* trailing partial group
MaxCoords == 4 * MaxCand + 1

----------------------------------------------------------------------------
(* Values *)

\* Option::None in a slot
None == 0

\* f32 NaN: the one confidence value partial_cmp cannot order
NaN == -1

ConfValues == {NaN, 1, 2}

Assets == {"valid", "malformed"}

Images == {"undecodable", "decodable"}

\* the flat coordinate output of length n; every float is distinct, so a
\* reordering or a mixing of groups is visible in the decoded box
Coords(n) == [k \in 1..n |-> k]

SeqsUpTo(S, n) == UNION {[1..k -> S] : k \in 0..n}

\* run() of the detector graph on the (1,3,240,320) tensor.  fault:
\*   "run"       run() returns Err
\*   "noOutput0" result[0] does not exist
\*   "type0"     result[0] is not an f32 tensor
\*   "shape0"    result[0] cannot be sliced by [0, .., 1]
\*   "noOutput1" result[1] does not exist
\*   "type1"     result[1] is not an f32 tensor
\*   "none"      confidences = result[0][0, .., 1], coords = result[1] flattened
DetectorFaults == {"run", "noOutput0", "type0", "shape0", "noOutput1", "type1"}

DetectorRuns ==
    [fault : DetectorFaults, confidences : {<<>>}, coords : {<<>>}]
    \cup
    [fault : {"none"},
     confidences : SeqsUpTo(ConfValues, MaxCand),
     coords : {Coords(n) : n \in 0..MaxCoords}]

\* run() of the embedder graph on the (1,3,140,140) tensor
EmbedderFaults == {"run", "noOutput0", "type0"}

EmbedderRuns ==
    [fault : EmbedderFaults, v0 : {<<>>}]
    \cup
    [fault : {"none"}, v0 : SeqsUpTo({1, 2}, MaxEmb)]

\* What a call returned.  box is <<>> or <<a BoundingBox>>; conf and v0 are
\* meaningful only when kind = "Ok".
Ret(op, image, kind, what, box, conf, v0) ==
    [op |-> op, image |-> image, kind |-> kind, what |-> what,
     box |-> box, conf |-> conf, v0 |-> v0]

Ok(op, image, box, conf, v0) == Ret(op, image, "Ok", "", box, conf, v0)
Err(op, image, what) == Ret(op, image, "Err", what, <<>>, 0, <<>>)
Panic(op, image, what) == Ret(op, image, "Panic", what, <<>>, 0, <<>>)

Registry(u, f) == [ULTRAFACE |-> u, FACEREC |-> f]

----------------------------------------------------------------------------
(* setup *)

\* ModelProto::decode(..)?, model_for_proto_model(..)?, into_optimized()?,
\* into_runnable()?: each `?` leaves the function with the error before the
\* slot is written
Load(onnx) == IF onnx = "valid" THEN "Ok" ELSE "Err"

\* a setup_ultraface that keeps a graph already installed
setup_ultraface_once(reg, gen) ==
    IF Load(ultrafaceOnnx) = "Err"
    THEN [reg |-> reg, res |-> "Err"]
    ELSE [reg |-> IF reg.ULTRAFACE = None
                  THEN Registry(gen, reg.FACEREC) ELSE reg,
          res |-> "Ok"]

setup_ultraface(reg, gen) ==
    IF Load(ultrafaceOnnx) = "Err"
    THEN [reg |-> reg, res |-> "Err"]
    ELSE [reg |-> Registry(gen, reg.FACEREC), res |-> "Ok"]

setup_facerec(reg, gen) ==
    IF Load(facerecOnnx) = "Err"
    THEN [reg |-> reg, res |-> "Err"]
    ELSE [reg |-> Registry(reg.ULTRAFACE, gen), res |-> "Ok"]

\* setup_ultraface()?; setup_facerec()
setup(reg, gen) ==
    LET u == setup_ultraface(reg, gen)
    IN  IF u.res = "Err" THEN u ELSE setup_facerec(u.reg, gen)

----------------------------------------------------------------------------
(* detect *)

\* a BoundingBox::new that reads the floats in another order
BoundingBox_new_swapped(raw) ==
    IF Len(raw) < 4
    THEN [kind |-> "Panic", box |-> <<>>]
    ELSE [kind |-> "Ok",
          box |-> <<[left |-> raw[2], top |-> raw[1],
                     right |-> raw[3], bottom |-> raw[4]]>>]

\* raw[0], raw[1], raw[2], raw[3]: an index past the end of the slice panics
BoundingBox_new(raw) ==
    IF Len(raw) < 4
    THEN [kind |-> "Panic", box |-> <<>>]
    ELSE [kind |-> "Ok",
          box |-> <<[left |-> raw[1], top |-> raw[2],
                     right |-> raw[3], bottom |-> raw[4]]>>]

Min(a, b) == IF a < b THEN a ELSE b

\* slice::chunks(n): consecutive runs of n elements, the last one shorter
\* when the length is not a multiple of n
chunks(s, n) ==
    [i \in 1..((Len(s) + n - 1) \div n) |->
        SubSeq(s, n * (i - 1) + 1, Min(n * i, Len(s)))]

\* .map(BoundingBox::new).collect(): every chunk is decoded, so one short
\* chunk panics the whole collect
map_new(cs) ==
    IF \E i \in 1..Len(cs) : BoundingBox_new(cs[i]).kind = "Panic"
    THEN [kind |-> "Panic", boxes |-> <<>>]
    ELSE [kind |-> "Ok",
          boxes |-> [i \in 1..Len(cs) |-> BoundingBox_new(cs[i]).box[1]]]

\* Iterator::zip: stops at the shorter of the two
zip(boxes, confidences) ==
    [i \in 1..Min(Len(boxes), Len(confidences)) |->
        [box |-> boxes[i], conf |-> confidences[i]]]

\* f32::partial_cmp
partial_cmp(a, b) ==
    IF a = NaN \/ b = NaN THEN "None"
    ELSE IF a < b THEN "Less"
    ELSE IF a > b THEN "Greater"
    ELSE "Equal"

NoItem == [box |-> [left |-> 0, top |-> 0, right |-> 0, bottom |-> 0], conf |-> 0]

\* the reduce step of Iterator::max_by: x is kept only when compare(x, y) is
\* Greater; the comparator is a.1.partial_cmp(b.1).unwrap()
RECURSIVE reduce_max(_, _, _)
reduce_max(x, s, i) ==
    IF i > Len(s) THEN [kind |-> "Some", item |-> x]
    ELSE LET o == partial_cmp(x.conf, s[i].conf)
         IN  IF o = "None" THEN [kind |-> "Panic", item |-> NoItem]
             ELSE reduce_max(IF o = "Greater" THEN x ELSE s[i], s, i + 1)

\* a reduce step that keeps x on Equal as well
RECURSIVE reduce_first(_, _, _)
reduce_first(x, s, i) ==
    IF i > Len(s) THEN [kind |-> "Some", item |-> x]
    ELSE LET o == partial_cmp(x.conf, s[i].conf)
         IN  IF o = "None" THEN [kind |-> "Panic", item |-> NoItem]
             ELSE reduce_first(IF o \in {"Greater", "Equal"} THEN x ELSE s[i], s, i + 1)

\* a reduce step that keeps x when compare(x, y) is Less
RECURSIVE reduce_min(_, _, _)
reduce_min(x, s, i) ==
    IF i > Len(s) THEN [kind |-> "Some", item |-> x]
    ELSE LET o == partial_cmp(x.conf, s[i].conf)
         IN  IF o = "None" THEN [kind |-> "Panic", item |-> NoItem]
             ELSE reduce_min(IF o = "Less" THEN x ELSE s[i], s, i + 1)

max_by_first(s) ==
    IF Len(s) = 0 THEN [kind |-> "None", item |-> NoItem]
    ELSE reduce_first(s[1], s, 2)

max_by_min(s) ==
    IF Len(s) = 0 THEN [kind |-> "None", item |-> NoItem]
    ELSE reduce_min(s[1], s, 2)

\* a selection that takes the first element without asking whether there is one
max_by_unchecked(s) ==
    IF Len(s) = 0 THEN [kind |-> "Panic", item |-> NoItem]
    ELSE reduce_max(s[1], s, 2)

\* Iterator::max_by: None for an empty iterator
max_by(s) ==
    IF Len(s) = 0 THEN [kind |-> "None", item |-> NoItem]
    ELSE reduce_max(s[1], s, 2)

\* lines 97-117: from the outputs of run() to the returned pair
decode_select(image, run) ==
    IF run.fault = "noOutput0" THEN Panic("detect", image, "index")
    ELSE IF run.fault = "type0" THEN Err("detect", image, "InferenceError")
    ELSE IF run.fault = "shape0" THEN Panic("detect", image, "slice")
    ELSE IF run.fault = "noOutput1" THEN Panic("detect", image, "index")
    ELSE IF run.fault = "type1" THEN Err("detect", image, "InferenceError")
    ELSE LET boxes == map_new(chunks(run.coords, 4))
         IN  IF boxes.kind = "Panic" THEN Panic("detect", image, "index")
             ELSE LET best == max_by(zip(boxes.boxes, run.confidences))
                  IN  IF best.kind = "Panic"
                      THEN Panic("detect", image, "unwrap_partial_cmp")
                      ELSE IF best.kind = "None"
                      THEN Err("detect", image, "NoFaceDetected")
                      ELSE Ok("detect", image, <<best.item.box>>,
                              best.item.conf, <<>>)

\* a detect that empties the slot it reads (Option::take)
detect_take(reg, image) ==
    IF reg.ULTRAFACE = None
    THEN [reg |-> reg, ret |-> Panic("detect", image, "unwrap_none")]
    ELSE [reg |-> Registry(None, reg.FACEREC),
          ret |-> IF image = "undecodable"
                  THEN Err("detect", image, "ImageDecodeError")
                  ELSE IF detectorRun.fault = "run"
                  THEN Err("detect", image, "InferenceError")
                  ELSE decode_select(image, detectorRun)]

\* detect: model.as_ref().unwrap(), load_from_memory(..)?, run(..)?, then
\* the decoding of the outputs.  The slots are only borrowed (with_borrow).
detect(reg, image) ==
    [reg |-> reg,
     ret |-> IF reg.ULTRAFACE = None
             THEN Panic("detect", image, "unwrap_none")
             ELSE IF image = "undecodable"
             THEN Err("detect", image, "ImageDecodeError")
             ELSE IF detectorRun.fault = "run"
             THEN Err("detect", image, "InferenceError")
             ELSE decode_select(image, detectorRun)]

----------------------------------------------------------------------------
(* embedding *)

embedding(reg, image) ==
    [reg |-> reg,
     ret |-> IF reg.FACEREC = None
             THEN Panic("embedding", image, "unwrap_none")
             ELSE IF image = "undecodable"
             THEN Err("embedding", image, "ImageDecodeError")
             ELSE IF embedderRun.fault = "run"
             THEN Err("embedding", image, "InferenceError")
             ELSE IF embedderRun.fault = "noOutput0"
             THEN Panic("embedding", image, "index")
             ELSE IF embedderRun.fault = "type0"
             THEN Err("embedding", image, "InferenceError")
             ELSE Ok("embedding", image, <<>>, 0, embedderRun.v0)]

----------------------------------------------------------------------------
(* The state machine *)

Init ==
    /\ ULTRAFACE = None
    /\ FACEREC = None
    /\ loads = 0
    /\ ultrafaceOnnx \in Assets
    /\ facerecOnnx \in Assets
    /\ detectorRun \in DetectorRuns
    /\ embedderRun \in EmbedderRuns
    /\ ret = Ret("none", "", "", "", <<>>, 0, <<>>)

Setup ==
    /\ loads < MaxLoads
    /\ LET r == setup(Registry(ULTRAFACE, FACEREC), loads + 1)
       IN  /\ ULTRAFACE' = r.reg.ULTRAFACE
           /\ FACEREC' = r.reg.FACEREC
           /\ ret' = Ret("setup", "", r.res,
                         IF r.res = "Err" THEN "ModelLoadError" ELSE "",
                         <<>>, 0, <<>>)
    /\ loads' = loads + 1
    /\ UNCHANGED <<ultrafaceOnnx, facerecOnnx, detectorRun, embedderRun>>

Detect ==
    \E image \in Images :
        LET r == detect(Registry(ULTRAFACE, FACEREC), image)
        IN  /\ ULTRAFACE' = r.reg.ULTRAFACE
            /\ FACEREC' = r.reg.FACEREC
            /\ ret' = r.ret
            /\ UNCHANGED <<loads, ultrafaceOnnx, facerecOnnx,
                           detectorRun, embedderRun>>

Embedding ==
    \E image \in Images :
        LET r == embedding(Registry(ULTRAFACE, FACEREC), image)
        IN  /\ ULTRAFACE' = r.reg.ULTRAFACE
            /\ FACEREC' = r.reg.FACEREC
            /\ ret' = r.ret
            /\ UNCHANGED <<loads, ultrafaceOnnx, facerecOnnx,
                           detectorRun, embedderRun>>

Next == Setup \/ Detect \/ Embedding

Spec == Init /\ [][Next]_vars

----------------------------------------------------------------------------
(* Properties *)

\* both graphs installed
Ready == ULTRAFACE # None /\ FACEREC # None

\* the last call was a detect whose run() returned its two f32 outputs
DetectRan ==
    /\ ret.op = "detect"
    /\ ULTRAFACE # None
    /\ ret.image = "decodable"
    /\ detectorRun.fault = "none"

\* the coordinate output holds exactly one 4-float group per confidence
Consistent ==
    Len(detectorRun.coords) = 4 * Len(detectorRun.confidences)

\* the candidates detect selects among
Candidates == 1..Min(Len(detectorRun.coords) \div 4, Len(detectorRun.confidences))

\* the 4-float group of candidate i, as a BoundingBox
Group(i) ==
    [left |-> detectorRun.coords[4 * i - 3], top |-> detectorRun.coords[4 * i - 2],
     right |-> detectorRun.coords[4 * i - 1], bottom |-> detectorRun.coords[4 * i]]

Comparable == \A i \in Candidates : detectorRun.confidences[i] # NaN

Maximal(i) ==
    \A j \in Candidates : detectorRun.confidences[i] >= detectorRun.confidences[j]

\* C1: a detect or embedding call made while setup() has not completed
\* successfully returns the NotInitialized error: no panic, no box, no
\* embedding.
C1_NotInitializedError ==
    (ret.op \in {"detect", "embedding"} /\ ~Ready)
        => (ret.kind = "Err" /\ ret.what = "NotInitialized")

\* C2: after a setup() that was called on an empty registry and returned an
\* error, neither graph is installed.
C2_FailedSetupInstallsNothing ==
    (ret.op = "setup" /\ ret.kind = "Err" /\ loads = 1)
        => (ULTRAFACE = None /\ FACEREC = None)

\* C3: for a non-empty list of candidates whose confidences are pairwise
\* comparable, detect returns a pair, and its confidence is at least the
\* confidence of every candidate.
C3_ReturnsMaximum ==
    (DetectRan /\ Consistent /\ Comparable /\ Candidates # {})
        => /\ ret.kind = "Ok"
           /\ \A i \in Candidates : ret.conf >= detectorRun.confidences[i]

C3_Witness ==
    /\ DetectRan /\ Consistent
    /\ detectorRun.confidences = <<1, 2>>
    /\ ret.kind = "Ok" /\ ret.conf = 2 /\ ret.box = <<Group(2)>>

\* C4 as stated: when several candidates share the maximum confidence,
\* detect returns the one with the lowest index.
C4_FirstMaximalWins ==
    (DetectRan /\ Consistent /\ Comparable /\ Candidates # {})
        => \E i \in Candidates :
              /\ Maximal(i)
              /\ \A j \in Candidates : Maximal(j) => i <= j
              /\ ret.kind = "Ok" /\ ret.box = <<Group(i)>>

\* C4 amended: when several candidates share the maximum confidence, detect
\* returns the one with the highest index (the last maximal candidate).
C4_LastMaximalWins ==
    (DetectRan /\ Consistent /\ Comparable /\ Candidates # {})
        => \E i \in Candidates :
              /\ Maximal(i)
              /\ \A j \in Candidates : Maximal(j) => j <= i
              /\ ret.kind = "Ok" /\ ret.box = <<Group(i)>>

C4_Witness ==
    /\ DetectRan /\ Consistent
    /\ detectorRun.confidences = <<2, 2>>
    /\ ret.kind = "Ok" /\ ret.box = <<Group(2)>>

\* C5: when the detector graph returns no candidates (empty confidence and
\* coordinate outputs), detect returns the NoFaceDetected error: no panic
\* and no box.
C5_NoFaceDetected ==
    (DetectRan /\ detectorRun.confidences = <<>> /\ detectorRun.coords = <<>>)
        => (ret.kind = "Err" /\ ret.what = "NoFaceDetected" /\ ret.box = <<>>)

C5_Witness ==
    /\ DetectRan /\ detectorRun.confidences = <<>> /\ detectorRun.coords = <<>>
    /\ ret.what = "NoFaceDetected"

\* C6: once both graphs are installed they stay installed: a further
\* setup() returns Ok and puts newly loaded graphs in both slots, no call
\* empties a slot, and a detect or embedding call made then does not fail
\* for want of a graph.
C6_ReadyStaysReady ==
    [][Ready =>
          /\ Ready'
          /\ (ret'.op = "setup" /\ loads' # loads)
                => /\ ret'.kind = "Ok"
                   /\ ULTRAFACE' = loads' /\ FACEREC' = loads'
                   /\ ULTRAFACE' # ULTRAFACE /\ FACEREC' # FACEREC
          /\ (ret'.op \in {"detect", "embedding"})
                => ret'.what \notin {"NotInitialized", "unwrap_none"}]_vars

C6_Witness ==
    /\ Ready /\ loads = 2 /\ ULTRAFACE = 2 /\ FACEREC = 2
    /\ ret.op = "detect" /\ ret.kind = "Ok"

\* C7: when the coordinate output's length is not a multiple of 4, or its
\* number of 4-float groups differs from the number of confidences, detect
\* returns the InferenceError error: no panic, no box.
C7_InconsistentOutputsError ==
    (DetectRan /\ ~Consistent)
        => (ret.kind = "Err" /\ ret.what = "InferenceError")

\* C8: the pair detect returns is one candidate's: for some i the returned
\* confidence is confidence i and the returned box is floats 4i .. 4i+3 of
\* the coordinate output as (left, top, right, bottom), in that order.
C8_IndexConsistent ==
    (ret.op = "detect" /\ ret.kind = "Ok")
        => \E i \in Candidates :
              /\ ret.conf = detectorRun.confidences[i]
              /\ ret.box = <<Group(i)>>

C8_Witness ==
    /\ ret.op = "detect" /\ ret.kind = "Ok"
    /\ detectorRun.confidences = <<2, 1>>
    /\ Len(detectorRun.coords) = 8
    /\ ret.conf = 2
    /\ ret.box = <<[left |-> 1, top |-> 2, right |-> 3, bottom |-> 4]>>

\* C9: detect and embedding leave both slots as they found them, whether
\* they return Ok, an error or panic; detect depends on the detector slot
\* alone and embedding on the embedder slot alone.
C9_CallsLeaveRegistry ==
    [][(ret'.op \in {"detect", "embedding"})
          => /\ ULTRAFACE' = ULTRAFACE
             /\ FACEREC' = FACEREC
             /\ (ret'.op = "detect")
                   => (ret'.what = "unwrap_none" <=> ULTRAFACE = None)
             /\ (ret'.op = "embedding")
                   => (ret'.what = "unwrap_none" <=> FACEREC = None)]_vars

C9_Witness ==
    /\ ULTRAFACE # None /\ FACEREC = None
    /\ ret.op = "detect" /\ ret.kind = "Ok"

\* C10: the selection of the maximum ends, for every list of confidences
\* the graph can return (NaN included), in a returned pair or an error
\* value, never in a panic.
C10_SelectionNeverPanics ==
    (DetectRan /\ Len(detectorRun.coords) % 4 = 0)
        => ret.kind \in {"Ok", "Err"}

====
